---- MODULE Spec2Model ----
(***************************************************************************)
(* OneClouds backend: the catalog of FileMetadata rows kept by             *)
(* sync_account_files, the user operations that write it (upload, delete,  *)
(* duplicate removal, account deletion) and the duplicate scan             *)
(* get_duplicates, as one state machine over the database tables and the   *)
(* background sync tasks.                                                  *)
(*                                                                         *)
(* Python's None is the string "None" for string-valued fields and NoSize  *)
(* for sizes.  datetime.utcnow() is the logical clock `now`, which ticks   *)
(* once per handler that writes.  A digest is a tuple: <<>> is None, a      *)
(* content hash is <<h>>, and md5 is taken to be collision free, so that   *)
(* the md5 of a string is the tuple of the parts the string was built of.  *)
(***************************************************************************)
EXTENDS Integers, Sequences, FiniteSets, TLC

\* ------------------------------------------------------------------ bounds

MaxClock == 2

MaxListLen == 2

MaxRemove == 2

TaskIds == {1, 2}

NoSize == -1

\* ---------------------------------------------------------- value universes

FileIds == {"a", "b"}

\* str.lower() on the names of the model
Lower(name) ==
    CASE name = "X.PNG" -> "x.png"
      [] OTHER -> name

\* ORDER BY name under SQLite's default BINARY collation: upper case first
NameRank(name) ==
    CASE name = "X.PNG" -> 1
      [] name = "x.png" -> 2
      [] name = "y.txt" -> 3
      [] OTHER -> 0

\* A datetime is "None", naive ("t1") or timezone-aware ("t1+00:00").
\* The DateTime column keeps no tzinfo: what is read back is naive.
DbDateTime(dt) ==
    CASE dt = "t1+00:00" -> "t1"
      [] dt = "t2+00:00" -> "t2"
      [] OTHER -> dt

\* one normalized file descriptor, as the providers' normalize_* return it
Descriptor(pfid, name, size, mime, modified, chash, link) ==
    [provider_file_id |-> pfid, name |-> name, size |-> size,
     mime_type |-> mime, modified_at |-> modified, content_hash |-> chash,
     web_view_link |-> link, preview_link |-> link]

\* the descriptors of the reconciliation runs: files that change size, and
\* both kinds of timestamp (GoogleDriveProvider.parse_datetime is naive,
\* OneDriveProvider's datetime.fromisoformat(...'+00:00') is aware)
SyncDescriptors ==
    {Descriptor(p, "x.png", v[1], "image/png", v[2], <<>>, "None") :
        p \in FileIds, v \in {<<100, "t1">>, <<200, "t1+00:00">>}}

\* the descriptors of the duplicate scans: two files with one content hash,
\* a file without one whose name differs in case only, and a file that has no
\* mime type either
DupDescriptors ==
    {Descriptor("a", "x.png", 100, "image/png", "t1", <<"h1">>, "None"),
     Descriptor("b", "x.png", 100, "image/png", "t1", <<"h1">>, "None"),
     Descriptor("a", "X.PNG", 100, "image/png", "t1", <<>>, "None"),
     Descriptor("b", "x.png", 100, "None", "t1", <<>>, "None")}

RECURSIVE SeqsUpTo(_, _)
SeqsUpTo(S, n) ==
    IF n = 0 THEN {<<>>}
    ELSE LET shorter == SeqsUpTo(S, n - 1)
         IN  shorter \cup {Append(q, x) : q \in {r \in shorter : Len(r) = n - 1}, x \in S}

Range(f) == {f[x] : x \in DOMAIN f}

SetMax(S) == IF S = {} THEN 0 ELSE CHOOSE m \in S : \A x \in S : x <= m

\* ------------------------------------------------------------------- state

VARIABLES
    accounts,     \* table storage_accounts: a set of rows
    files,        \* table file_metadata: a set of rows
    tasks,        \* the background tasks running sync_account_files
    now,          \* datetime.utcnow(), a logical clock
    dup_result,   \* the request GET /api/duplicates that is being answered, with its response
    users,        \* table users: the ids of the registered users
    call,         \* a provider instance and the operation it is executing
    sync_logs,    \* table sync_logs: a set of rows
    app_run,      \* the last request POST /api/storage-accounts/<id>/sync of app.py
    callbacks,    \* the OAuth callbacks received, each with its position in auth_callback
    limiter,      \* the RateLimiter of a provider instance, with time.time()
    probe         \* the arguments and results of the hashing and encryption functions

vars == <<accounts, files, tasks, now, dup_result, users, call, sync_logs, app_run,
          callbacks, limiter, probe>>

\* what the handlers of the catalog leave alone
inflight == <<callbacks, limiter, probe>>

\* no GET /api/duplicates is being answered
NoScan == [served |-> FALSE, user_id |-> 0, mode |-> "None", groups |-> <<>>]

IdleTask == [pc |-> "idle", account_id |-> 0, user_id |-> 0]

AccountIds == {1, 2}

\* no provider instance has been constructed
NoCall ==
    [provider |-> "None", mode |-> "None", access_token |-> 0, refresh_token |-> 0,
     client_id |-> FALSE,
     stored |-> [access_token |-> 0, refresh_token |-> 0, expires_in |-> 0],
     stored_before |-> [access_token |-> 0, refresh_token |-> 0, expires_in |-> 0],
     op |-> "None", pc |-> "none", refreshes |-> 0, entered |-> 0, sends |-> 0,
     responses |-> <<>>, error |-> "None", result |-> "None"]

\* no sync request of app.py has been made
NoRun ==
    [pc |-> "idle", account_id |-> 0, user_id |-> 0, log_id |-> 0, pages |-> 0,
     files_added |-> 0, files_updated |-> 0, committed |-> {}, before |-> {}]

\* RateLimiter.__init__: no request yet; time.time() is 0 and nothing was sent
NoLimiter == [requests |-> <<>>, time |-> 0, sent |-> <<>>]

\* no function has been applied
NoProbe ==
    [name |-> "None", other_name |-> "None", size |-> NoSize, mime_type |-> "None",
     token |-> "", applied |-> {}, computed |-> <<>>, computed_other |-> <<>>,
     generated |-> <<>>, generated_other |-> <<>>, encrypted |-> <<>>,
     decrypted |-> "None"]

InitWith(U) ==
    /\ callbacks = <<>>
    /\ limiter = NoLimiter
    /\ probe = NoProbe
    /\ users = U
    /\ accounts = {}
    /\ files = {}
    /\ tasks = [t \in TaskIds |-> IdleTask]
    /\ now = 0
    /\ dup_result = NoScan
    /\ call = NoCall
    /\ sync_logs = {}
    /\ app_run = NoRun

\* ------------------------------------------------------- sync_account_files

\* a size hash over the name as it is written
ComputeSizeHashExact(name, size, mime_type) ==
    IF name # "None" /\ name # "" /\ size # NoSize
    THEN <<"md5", name, size, IF mime_type = "None" THEN "" ELSE mime_type>>
    ELSE <<>>

\* _compute_size_hash: md5(f"{name.lower()}_{size}_{mime_type or ''}") when
\* name is truthy and size is not None, else None
ComputeSizeHash(name, size, mime_type) ==
    IF name # "None" /\ name # "" /\ size # NoSize
    THEN <<"md5", Lower(name), size, IF mime_type = "None" THEN "" ELSE mime_type>>
    ELSE <<>>

\* the comparison of an existing row with a descriptor, main.py 994-1001
Changed(e, d) ==
    \/ e.name # d.name
    \/ e.mime_type # d.mime_type
    \/ e.is_folder # FALSE
    \/ e.size # d.size
    \/ e.modified_at_source # d.modified_at
    \/ e.content_hash # d.content_hash
    \/ e.web_view_link # d.web_view_link
    \/ e.preview_link # d.preview_link

\* the overwrite of an existing row, main.py 1003-1017
UpdatedRow(e, d, t) ==
    LET computed == ComputeSizeHash(d.name, d.size, d.mime_type)
    IN  [e EXCEPT !.name = d.name, !.mime_type = d.mime_type,
                  !.is_folder = FALSE, !.size = d.size,
                  !.modified_at_source = d.modified_at,
                  !.preview_link = d.preview_link,
                  !.web_view_link = d.web_view_link,
                  !.content_hash = d.content_hash,
                  !.size_hash = IF computed # <<>> THEN computed ELSE e.size_hash,
                  !.updated_at = t,
                  !.is_active = TRUE]

\* the FileMetadata row built for an unknown provider_file_id, main.py 1021-1041
\* (id 0 until the INSERT gives it one)
NewRow(account_id, user_id, d, t) ==
    [id |-> 0, user_id |-> user_id, storage_account_id |-> account_id,
     provider_file_id |-> d.provider_file_id, name |-> d.name,
     size |-> d.size, mime_type |-> d.mime_type, is_folder |-> FALSE,
     modified_at_source |-> d.modified_at, content_hash |-> d.content_hash,
     size_hash |-> ComputeSizeHash(d.name, d.size, d.mime_type),
     web_view_link |-> d.web_view_link, preview_link |-> d.preview_link,
     is_active |-> TRUE, updated_at |-> t]

\* one turn of the loop over cloud_files['files'], main.py 970-1043.
\* st.em is existing_metadata (its rows are changed in place), st.added the
\* rows handed to db.add, st.seen is current_cloud_file_ids.
UpsertOne(st, d, account_id, user_id, t) ==
    LET p == d.provider_file_id
        seen == st.seen \cup {p}
    IN  IF p \in DOMAIN st.em
        THEN IF Changed(st.em[p], d)
             THEN [st EXCEPT !.seen = seen,
                             !.em = [@ EXCEPT ![p] = UpdatedRow(@, d, t)],
                             !.new_or_updated_count = @ + 1]
             ELSE [st EXCEPT !.seen = seen]
        ELSE [st EXCEPT !.seen = seen,
                        !.added = Append(@, NewRow(account_id, user_id, d, t)),
                        !.new_or_updated_count = @ + 1]

RECURSIVE UpsertLoop(_, _, _, _, _, _)
UpsertLoop(st, listing, i, account_id, user_id, t) ==
    IF i > Len(listing) THEN st
    ELSE UpsertLoop(UpsertOne(st, listing[i], account_id, user_id, t),
                    listing, i + 1, account_id, user_id, t)

\* a retiring pass that drops the rows not seen instead of flagging them
DeactivateByDelete(em, seen, t) ==
    [p \in {q \in DOMAIN em : q \in seen \/ ~em[q].is_active} |-> em[p]]

\* the pass over existing_metadata that retires the rows not seen, main.py 1046-1050
Deactivate(em, seen, t) ==
    [p \in DOMAIN em |->
        IF p \notin seen /\ em[p].is_active
        THEN [em[p] EXCEPT !.is_active = FALSE, !.updated_at = t]
        ELSE em[p]]

\* what the database keeps of a row that is flushed
DbStore(row) == [row EXCEPT !.modified_at_source = DbDateTime(@)]

\* file_metadata.provider_file_id and .name are nullable=False, models.py 86-87
ViolatesNotNull(row) == row.provider_file_id = "None" \/ row.name = "None"

\* INSERT gives the rows of `added` the ids after the largest one in the table
WithIds(added, base) ==
    {[added[i] EXCEPT !.id = base + i] : i \in 1..Len(added)}

\* The rows of the table after the run's db.commit() at main.py 1055, for one
\* choice em0 of existing_metadata; `raised` when the flush fails and the
\* except clause rolls everything back.
Reconcile(table, em0, listing, account_id, user_id, t) ==
    LET st0  == [em |-> em0, added |-> <<>>, seen |-> {}, new_or_updated_count |-> 0]
        st1  == UpsertLoop(st0, listing, 1, account_id, user_id, t)
        em2  == Deactivate(st1.em, st1.seen, t)
        dirty == {em2[p] : p \in {q \in DOMAIN em2 : em2[q] # em0[q]}}
        ins  == WithIds(st1.added, SetMax({r.id : r \in table}))
        bad  == \E r \in dirty \cup ins : ViolatesNotNull(r)
    IN  IF bad
        THEN [raised |-> TRUE, rows |-> table]
        ELSE [raised |-> FALSE,
              rows |-> (table \ Range(em0))
                        \cup {DbStore(r) : r \in Range(em2)}
                        \cup {DbStore(r) : r \in ins}]

\* existing_metadata: a dict comprehension over the account's rows keyed by
\* provider_file_id; of several rows with one key the query's last one stays,
\* and the query has no ORDER BY
ExistingMetadataChoices(table, account_id) ==
    LET rows == {r \in table : r.storage_account_id = account_id}
        keys == {r.provider_file_id : r \in rows}
    IN  {em \in [keys -> rows] : \A p \in keys : em[p].provider_file_id = p}

\* ------------------------------------------------------------ the handlers

AccountRow(id) == CHOOSE a \in accounts : a.id = id

HasAccount(id, user_id) == \E a \in accounts : a.id = id /\ a.user_id = user_id

\* background_tasks.add_task(sync_account_files, account_id, db, user_id, ...):
\* the task takes the first free slot
AddTask(t, account_id, user_id) ==
    /\ tasks[t].pc = "idle"
    /\ \A t2 \in TaskIds : tasks[t2].pc = "idle" => t <= t2
    /\ tasks' = [tasks EXCEPT ![t] = [pc |-> "scheduled", account_id |-> account_id,
                                      user_id |-> user_id]]

\* a lookup that compares the stored mode with the key of the configuration
\* ("metadata_only" for "metadata")
StorageAccountOfMappedMode(user_id, provider, account_email, mode) ==
    {a \in accounts : /\ a.user_id = user_id
                      /\ a.provider = provider
                      /\ a.account_email = account_email
                      /\ a.mode = IF mode = "metadata" THEN "metadata_only" ELSE mode}

\* the query of auth_callback for the account of the user, the provider, the
\* external email and the mode, main.py 837-844
StorageAccountOf(user_id, provider, account_email, mode) ==
    {a \in accounts : /\ a.user_id = user_id
                      /\ a.provider = provider
                      /\ a.account_email = account_email
                      /\ a.mode = mode}

\* the id of the account auth_callback ends with: the first row of the query,
\* else the id the INSERT gives
CallbackAccountId(user_id, provider, account_email, mode) ==
    LET found == StorageAccountOf(user_id, provider, account_email, mode)
    IN  IF found = {} THEN SetMax({a.id : a \in accounts}) + 1
        ELSE (CHOOSE x \in found : \A y \in found : x.id <= y.id).id

\* auth_callback from the return of get_user_info() to its end, main.py 836-889:
\* find the account or create it, commit, and schedule its sync; nothing is
\* awaited in between
FindOrCreate(t, user_id, provider, account_email, mode) ==
    /\ tasks[t].pc = "idle"
    /\ LET found == StorageAccountOf(user_id, provider, account_email, mode)
           id == CallbackAccountId(user_id, provider, account_email, mode)
       IN  IF found = {}
           THEN /\ id \in AccountIds
                /\ accounts' = accounts \cup
                      {[id |-> id, user_id |-> user_id, provider |-> provider,
                        account_email |-> account_email, mode |-> mode,
                        is_active |-> TRUE, storage_used |-> 0]}
                /\ AddTask(t, id, user_id)
           ELSE /\ accounts' = (accounts \ {AccountRow(id)}) \cup
                                  {[AccountRow(id) EXCEPT !.is_active = TRUE]}
                /\ AddTask(t, id, user_id)

\* auth_callback for the one external account the catalog's specifications
\* connect, its two awaits answered at once
AuthCallback(t, user_id, mode) ==
    /\ user_id \in users
    /\ FindOrCreate(t, user_id, "google_drive", "e1", mode)
    /\ dup_result' = NoScan
    /\ call' = NoCall
    /\ UNCHANGED <<inflight, sync_logs, app_run, files, now, users>>

\* the callbacks received at most
MaxCallbacks == 3

\* auth_callback up to `await temp_provider_instance.get_user_info()`, main.py
\* 765-834: the user of the state parameter exists, the code is exchanged and
\* the request waits for the provider's answer
AuthCallbackReceived(user_id, provider, account_email, mode) ==
    /\ user_id \in users
    /\ Len(callbacks) < MaxCallbacks
    /\ callbacks' = Append(callbacks,
            [user_id |-> user_id, provider |-> provider, account_email |-> account_email,
             mode |-> mode, pc |-> "awaiting", account_id |-> 0, found |-> FALSE,
             overlapped |-> FALSE])
    /\ dup_result' = NoScan
    /\ call' = NoCall
    /\ UNCHANGED <<limiter, probe, sync_logs, app_run, accounts, files, tasks, now, users>>

\* callback i goes on from the return of get_user_info() to its end; the
\* record keeps the account it ended with, whether the query found it, and
\* whether another callback was waiting at that moment
AuthCallbackReturned(t, i) ==
    /\ i \in DOMAIN callbacks
    /\ callbacks[i].pc = "awaiting"
    /\ LET cb == callbacks[i]
       IN  /\ FindOrCreate(t, cb.user_id, cb.provider, cb.account_email, cb.mode)
           /\ callbacks' = [callbacks EXCEPT
                 ![i].pc = "done",
                 ![i].account_id = CallbackAccountId(cb.user_id, cb.provider,
                                                     cb.account_email, cb.mode),
                 ![i].found = StorageAccountOf(cb.user_id, cb.provider,
                                               cb.account_email, cb.mode) # {},
                 ![i].overlapped = \E j \in DOMAIN callbacks :
                                       j # i /\ callbacks[j].pc = "awaiting"]
    /\ dup_result' = NoScan
    /\ call' = NoCall
    /\ UNCHANGED <<limiter, probe, sync_logs, app_run, files, now, users>>

\* POST /api/storage-accounts/{account_id}/sync
SyncAccount(t, account_id, user_id) ==
    /\ user_id \in users
    /\ tasks[t].pc = "idle"
    /\ HasAccount(account_id, user_id)
    /\ AddTask(t, account_id, user_id)
    /\ dup_result' = NoScan
    /\ call' = NoCall
    /\ UNCHANGED <<inflight, sync_logs, app_run, accounts, files, now, users>>

\* sync_account_files up to `await provider_instance.list_files()`
SyncStart(t) ==
    /\ tasks[t].pc = "scheduled"
    /\ IF HasAccount(tasks[t].account_id, tasks[t].user_id)
       THEN tasks' = [tasks EXCEPT ![t].pc = "listing"]
       ELSE tasks' = [tasks EXCEPT ![t] = IdleTask]
    /\ dup_result' = NoScan
    /\ call' = NoCall
    /\ UNCHANGED <<inflight, sync_logs, app_run, accounts, files, now, users>>

\* What list_files() returns.  A call that fails (an exception of
\* make_request, a status other than 200) comes back as an empty listing:
\* google_drive.py 175-181, onedrive_provider.py 205-209,
\* dropbox_provider.py 198-200.  Only the first page is asked for; `more` are
\* the ids of the files on the pages behind next_page_token.
ListFilesResponse(ok, page, more) ==
    IF ok
    THEN [files |-> page, next_page_token |-> IF more = {} THEN "None" ELSE "next"]
    ELSE [files |-> <<>>, next_page_token |-> "None"]

\* sync_account_files from the return of list_files() to the commit at
\* main.py 1055, where it awaits get_storage_quota(): the provider's call
\* succeeds (ok) with the first page `page` or fails, and em0 is
\* existing_metadata.  A None or malformed response ends the run at once.
SyncListStep(t, ok, page, more, em0) ==
    /\ tasks[t].pc = "listing"
    /\ em0 \in ExistingMetadataChoices(files, tasks[t].account_id)
    /\ LET cloud_files == ListFilesResponse(ok, page, more)
           res == Reconcile(files, em0, cloud_files.files, tasks[t].account_id,
                            tasks[t].user_id, now + 1)
       IN  /\ (res.rows # files) => now < MaxClock
           /\ files' = res.rows
           /\ tasks' = [tasks EXCEPT ![t] =
                 IF res.raised THEN IdleTask ELSE [@ EXCEPT !.pc = "quota"]]
           /\ now' = IF res.rows = files THEN now ELSE now + 1
    /\ dup_result' = NoScan
    /\ call' = NoCall
    /\ UNCHANGED <<inflight, sync_logs, app_run, accounts, users>>

\* the run of task t over the responses the provider can give: the first
\* pages over the descriptors D, the ids on later pages being one of Later
SyncList(t, D, Later) ==
    \E ok \in BOOLEAN, page \in SeqsUpTo(D, MaxListLen), more \in Later :
        /\ (~ok) => (page = <<>> /\ more = {})
        /\ \E em0 \in ExistingMetadataChoices(files, tasks[t].account_id) :
                SyncListStep(t, ok, page, more, em0)

SumSizes(rows) ==
    LET RECURSIVE Sum(_)
        Sum(S) == IF S = {} THEN 0
                  ELSE LET r == CHOOSE x \in S : TRUE
                       IN  (IF r.size = NoSize THEN 0 ELSE r.size) + Sum(S \ {r})
    IN  Sum(rows)

\* sync_account_files from the return of get_storage_quota() to its end,
\* main.py 1057-1086.  quota is "ok" (the provider's figures), "zeros" (the
\* {'total': 0, 'used': 0} a provider returns for a call that failed) or
\* "raises".
SyncQuota(t, quota, used) ==
    /\ tasks[t].pc = "quota"
    /\ LET id == tasks[t].account_id
           fallback == SumSizes({r \in files : /\ r.storage_account_id = id
                                               /\ ~r.is_folder
                                               /\ r.is_active})
           value == CASE quota = "ok" -> used
                      [] quota = "zeros" -> 0
                      [] OTHER -> fallback
       IN  IF \E a \in accounts : a.id = id
           THEN accounts' = (accounts \ {AccountRow(id)}) \cup
                              {[AccountRow(id) EXCEPT !.storage_used = value]}
           ELSE UNCHANGED accounts
    /\ tasks' = [tasks EXCEPT ![t] = IdleTask]
    /\ dup_result' = NoScan
    /\ call' = NoCall
    /\ UNCHANGED <<inflight, sync_logs, app_run, files, now, users>>

\* a handler that allows no deletion and no upload to be refused
ModeAllowsAny(a) ==
    TRUE

\* the test of the account's mode in delete_file, remove_duplicate_files and
\* upload_file: main.py 1481, 1301, 1543
ModeAllows(a) ==
    a.mode # "metadata"

\* the request was answered with the refusal, no provider instance was built
Refused(a, op) ==
    [NoCall EXCEPT !.mode = a.mode, !.op = op, !.pc = "refused"]

\* the handler built the provider instance of the account and awaited op on
\* it; the requests the operation sends are those of SpecCall
Invoked(a, op) ==
    [NoCall EXCEPT !.mode = a.mode, !.op = op, !.pc = "done"]

\* FileMetadata.generate_size_hash, models.py 139-144: None unless size and
\* name are truthy
GenerateSizeHash(name, size, mime_type) ==
    IF size # NoSize /\ size # 0 /\ name # "None" /\ name # ""
    THEN <<"md5", Lower(name), size, IF mime_type = "None" THEN "" ELSE mime_type>>
    ELSE <<>>

\* FileUtils.create_file_metadata, utils.py 259-287, and the column defaults
\* (is_folder False, is_active True, updated_at utcnow) of the INSERT
CreateFileMetadata(user_id, account_id, d, t) ==
    [id |-> 0, user_id |-> user_id, storage_account_id |-> account_id,
     provider_file_id |-> d.provider_file_id, name |-> d.name,
     size |-> d.size, mime_type |-> d.mime_type, is_folder |-> FALSE,
     modified_at_source |-> d.modified_at, content_hash |-> d.content_hash,
     size_hash |-> IF d.name # "None" /\ d.name # "" /\ d.size # NoSize /\ d.size # 0
                   THEN GenerateSizeHash(d.name, d.size, d.mime_type)
                   ELSE <<>>,
     web_view_link |-> d.web_view_link, preview_link |-> d.preview_link,
     is_active |-> TRUE, updated_at |-> t]

\* POST /api/files/upload: the first active account of the user (of either
\* mode), 403 for a metadata account, else the provider's upload and the
\* INSERT of the row for the file it returns
UploadFile(user_id, a, uploaded, d) ==
    /\ user_id \in users
    /\ a \in accounts /\ a.user_id = user_id /\ a.is_active
    /\ IF ModeAllows(a) /\ uploaded /\ d.name # "None"
       THEN /\ now < MaxClock
            /\ files' = files \cup
                    WithIds(<<DbStore(CreateFileMetadata(a.user_id, a.id, d, now + 1))>>,
                            SetMax({r.id : r \in files}))
       ELSE UNCHANGED files
    /\ now' = IF files' = files THEN now ELSE now + 1
    /\ dup_result' = NoScan
    /\ call' = IF ModeAllows(a) THEN Invoked(a, "upload_file")
               ELSE Refused(a, "upload_file")
    /\ UNCHANGED <<inflight, sync_logs, app_run, accounts, tasks, users>>

\* Whether the handlers go on to db.delete(file_metadata) for a row: the
\* account's mode allows it and provider.delete_file did not raise (it
\* returns True or False, and the handlers do not read which).
MayDelete(row, raises) ==
    /\ \E a \in accounts : a.id = row.storage_account_id /\ ModeAllows(a)
    /\ ~raises

\* what the handlers do about the provider for a row: nothing when the row has
\* no account, a refusal for a metadata account, else provider.delete_file
DeleteCall(row) ==
    LET owners == {a \in accounts : a.id = row.storage_account_id}
        a      == CHOOSE x \in owners : TRUE
    IN  IF owners = {} THEN NoCall
        ELSE IF ModeAllows(a) THEN Invoked(a, "delete_file")
        ELSE Refused(a, "delete_file")

\* DELETE /api/files/{file_id}
DeleteFile(user_id, file_id, raises) ==
    /\ user_id \in users
    /\ \E row \in files :
         /\ row.id = file_id /\ row.user_id = user_id
         /\ IF MayDelete(row, raises)
            THEN files' = files \ {row}
            ELSE UNCHANGED files
         /\ call' = DeleteCall(row)
    /\ dup_result' = NoScan
    /\ UNCHANGED <<inflight, sync_logs, app_run, accounts, tasks, now, users>>

\* POST /api/duplicates/remove: each requested id on its own; `raising` are
\* the ids for which the provider's delete_file raises
RemoveDuplicateFiles(user_id, file_ids, raising) ==
    /\ user_id \in users
    /\ file_ids # {}
    /\ LET gone == {row \in files : /\ row.id \in file_ids
                                     /\ row.user_id = user_id
                                     /\ MayDelete(row, row.id \in raising)}
           asked == {row \in files : row.id \in file_ids /\ row.user_id = user_id}
           calls == {DeleteCall(row) : row \in asked}
       IN  /\ files' = files \ gone
           /\ call' = IF \E c \in calls : c.pc = "done"
                       THEN CHOOSE c \in calls : c.pc = "done"
                       ELSE IF \E c \in calls : c.pc = "refused"
                       THEN CHOOSE c \in calls : c.pc = "refused"
                       ELSE NoCall
    /\ dup_result' = NoScan
    /\ UNCHANGED <<inflight, sync_logs, app_run, accounts, tasks, now, users>>

\* what the DELETE request of provider.delete_file can come back with:
\* make_request returns every response it gets, whatever its status, and
\* raises only when the request itself fails
DeleteResponses == {"204", "404", "RequestError"}

\* provider.delete_file (Google Drive, OneDrive): True for a 204, False for
\* any other status, and the exception of make_request passed on
ProviderDeleteFile(response) ==
    IF response = "RequestError" THEN "raised"
    ELSE IF response = "204" THEN "True"
    ELSE "False"

\* DELETE /api/files/{file_id} when the provider answers `response`
DeleteFileAnswered(user_id, file_id, response) ==
    DeleteFile(user_id, file_id, ProviderDeleteFile(response) = "raised")

\* POST /api/duplicates/remove when the provider answers response[id] for
\* each requested id
RemoveDuplicateFilesAnswered(user_id, file_ids, response) ==
    RemoveDuplicateFiles(user_id, file_ids,
        {id \in file_ids : ProviderDeleteFile(response[id]) = "raised"})

\* DELETE /api/storage-accounts/{account_id}
DeleteStorageAccount(user_id, account_id) ==
    /\ user_id \in users
    /\ HasAccount(account_id, user_id)
    /\ files' = {r \in files : r.storage_account_id # account_id}
    /\ accounts' = {a \in accounts : a.id # account_id}
    /\ dup_result' = NoScan
    /\ sync_logs' = {l \in sync_logs : l.storage_account_id # account_id}
    /\ call' = NoCall
    /\ UNCHANGED <<inflight, app_run, tasks, now, users>>

\* DELETE /api/user
DeleteUserAccount(user_id) ==
    /\ user_id \in users
    /\ files' = {r \in files : r.user_id # user_id}
    /\ accounts' = {a \in accounts : a.user_id # user_id}
    /\ users' = users \ {user_id}
    /\ dup_result' = NoScan
    /\ sync_logs' = {l \in sync_logs : l.user_id # user_id}
    /\ call' = NoCall
    /\ UNCHANGED <<inflight, app_run, tasks, now>>

\* ------------------------------------------------------------ get_duplicates

\* apply_mode_filter: with a mode, the join with storage_accounts
ModeFilter(row, user_id, mode) ==
    mode = "None" \/ \E a \in accounts : /\ a.id = row.storage_account_id
                                         /\ a.mode = mode
                                         /\ a.user_id = user_id

\* the user's rows that pass the filter, retired ones among them
ScanRowsOfAnyActivity(user_id, mode) ==
    {r \in files : r.user_id = user_id /\ ModeFilter(r, user_id, mode)}

\* the rows every pass looks at: the user's active rows that pass the filter
ScanRows(user_id, mode) ==
    {r \in files : r.user_id = user_id /\ r.is_active /\ ModeFilter(r, user_id, mode)}

\* .order_by(FileMetadata.name).all() of a set of rows, as ids: the sequence
\* ord lists the ids of the rows a scan looks at by ascending name, rows of
\* one name in the order the database happens to give them
OrderByName(ord, rows) == SelectSeq(ord, LAMBDA id : \E r \in rows : r.id = id)

NameOrders(scanned) ==
    LET ids == {r.id : r \in scanned}
        row(id) == CHOOSE r \in scanned : r.id = id
    IN  {ord \in [1..Cardinality(ids) -> ids] :
            /\ \A i, j \in DOMAIN ord : i # j => ord[i] # ord[j]
            /\ \A i, j \in DOMAIN ord :
                 i < j => NameRank(row(ord[i]).name) <= NameRank(row(ord[j]).name)}

Perms(S) ==
    {q \in [1..Cardinality(S) -> S] : \A i, j \in DOMAIN q : i # j => q[i] # q[j]}

RowIds(q) == {q[i] : i \in DOMAIN q}

\* a turn that does not leave out the rows an earlier group has
EmitGroupUnfiltered(st, key, members) ==
    IF Len(members) > 1
    THEN [seen_file_ids |-> st.seen_file_ids \cup RowIds(members),
          duplicate_groups |-> Append(st.duplicate_groups,
              [hash |-> key, count |-> Len(members), files |-> members])]
    ELSE st

\* a turn that emits whatever is left of a key's rows, be it a single one
EmitGroupOfAny(st, key, members) ==
    LET group_files == SelectSeq(members, LAMBDA id : id \notin st.seen_file_ids)
    IN  IF Len(group_files) > 0
        THEN [seen_file_ids |-> st.seen_file_ids \cup RowIds(group_files),
              duplicate_groups |-> Append(st.duplicate_groups,
                  [hash |-> key, count |-> Len(group_files), files |-> group_files])]
        ELSE st

\* one turn of the loops of pass 1 and pass 2, main.py 1383-1399 and 1412-1428:
\* the rows of the key that no earlier group has, a group if more than one
EmitGroup(st, key, members) ==
    LET group_files == SelectSeq(members, LAMBDA id : id \notin st.seen_file_ids)
    IN  IF Len(group_files) > 1
        THEN [seen_file_ids |-> st.seen_file_ids \cup RowIds(group_files),
              duplicate_groups |-> Append(st.duplicate_groups,
                  [hash |-> key, count |-> Len(group_files), files |-> group_files])]
        ELSE st

\* PASS 1, over the content hashes in the order `keys` the GROUP BY gave them
RECURSIVE ContentPass(_, _, _, _, _, _)
ContentPass(st, keys, i, rows, ord, field) ==
    IF i > Len(keys) THEN st
    ELSE ContentPass(
            EmitGroup(st, keys[i],
                      OrderByName(ord, {r \in rows : r[field] = keys[i]})),
            keys, i + 1, rows, ord, field)

\* the keys of a GROUP BY ... HAVING count(id) > 1 over a column that IS NOT NULL
DuplicateKeys(rows, field) ==
    {k \in {r[field] : r \in rows} :
        k # <<>> /\ Cardinality({r \in rows : r[field] = k}) > 1}

\* PASS 3's dict: the keys (lower(name), size) in the order of their first row
RECURSIVE NameSizeKeys(_, _, _)
NameSizeKeys(scan, i, keys) ==
    IF i > Len(scan) THEN keys
    ELSE NameSizeKeys(scan, i + 1,
            IF \E j \in DOMAIN keys : keys[j] = scan[i].key THEN keys
            ELSE Append(keys, scan[i].key))

RECURSIVE NameSizePass(_, _, _, _)
NameSizePass(st, keys, i, scan) ==
    IF i > Len(keys) THEN st
    ELSE LET files_in_group == SelectSeq(scan, LAMBDA e : e.key = keys[i])
             ids == [j \in DOMAIN files_in_group |-> files_in_group[j].id]
         IN  NameSizePass(
                IF Len(files_in_group) > 1
                THEN [seen_file_ids |-> st.seen_file_ids \cup RowIds(ids),
                      duplicate_groups |-> Append(st.duplicate_groups,
                          [hash |-> <<"name_size", keys[i][1], keys[i][2]>>,
                           count |-> Len(files_in_group), files |-> ids])]
                ELSE st,
                keys, i + 1, scan)

\* a scan that takes the size hashes before the content hashes
DuplicatesSizeFirst(user_id, mode, ord, keys1, keys2) ==
    LET rows == ScanRows(user_id, mode)
        st0  == [seen_file_ids |-> {}, duplicate_groups |-> <<>>]
        st1  == ContentPass(st0, keys2, 1, rows, ord, "size_hash")
        st2  == ContentPass(st1, keys1, 1, rows, ord, "content_hash")
    IN  st2.duplicate_groups

\* get_duplicates, main.py 1346-1459, for one order ord of equal names and the
\* orders keys1, keys2 in which the two GROUP BY queries list their keys
Duplicates(user_id, mode, ord, keys1, keys2) ==
    LET rows == ScanRows(user_id, mode)
        st0  == [seen_file_ids |-> {}, duplicate_groups |-> <<>>]
        st1  == ContentPass(st0, keys1, 1, rows, ord, "content_hash")
        st2  == ContentPass(st1, keys2, 1, rows, ord, "size_hash")
        rows3 == {r \in rows : r.name # "None" /\ r.size # NoSize}
        row(id) == CHOOSE r \in rows3 : r.id = id
        order3 == SelectSeq(OrderByName(ord, rows3),
                            LAMBDA id : id \notin st2.seen_file_ids)
        scan == [j \in DOMAIN order3 |->
                    [id |-> order3[j],
                     key |-> <<Lower(row(order3[j]).name), row(order3[j]).size>>]]
        st3  == NameSizePass(st2, NameSizeKeys(scan, 1, <<>>), 1, scan)
    IN  st3.duplicate_groups

\* GET /api/duplicates
GetDuplicates(user_id, mode) ==
    /\ user_id \in users
    /\ \E ord \in NameOrders(ScanRows(user_id, mode)),
          keys1 \in Perms(DuplicateKeys(ScanRows(user_id, mode), "content_hash")),
          keys2 \in Perms(DuplicateKeys(ScanRows(user_id, mode), "size_hash")) :
            dup_result' = [served |-> TRUE, user_id |-> user_id, mode |-> mode,
                           groups |-> Duplicates(user_id, mode, ord, keys1, keys2)]
    /\ call' = NoCall
    /\ UNCHANGED <<inflight, sync_logs, app_run, accounts, files, tasks, now, users>>

\* ---------------------------------------------------- the reconciliation runs

\* -------------------------------------------------------- the provider calls

Providers == {"google_drive", "onedrive", "dropbox"}

Operations == {"list_files", "get_storage_quota", "delete_file", "upload_file"}

\* status of a response; for the Dropbox SDK 401 is AuthError and 500 any
\* other exception
Statuses == {200, 204, 401, 500}

\* tokens are numbered in the order the provider issues them; 0 is None
MaxToken == 3

\* the answers of the OAuth token endpoint: expires_in 0 is an answer without
\* the key
Grants == [granted : BOOLEAN, rotated : BOOLEAN, expires_in : {0, 1800}]

\* provider_class(access_token=..., refresh_token=..., mode=..., client_id=...,
\* db_session=db, storage_account_id=...) from the stored credentials
ProviderInstance(p, rt, cid, mode) ==
    [NoCall EXCEPT !.provider = p, !.mode = mode, !.access_token = 1,
                   !.refresh_token = rt, !.client_id = cid, !.pc = "idle",
                   !.stored = [access_token |-> 1, refresh_token |-> rt, expires_in |-> 3600],
                   !.stored_before = [access_token |-> 1, refresh_token |-> rt, expires_in |-> 3600]]

\* update_db_tokens: the refresh token of the row is overwritten only by a
\* truthy one
UpdateDbTokens(c, access_token, refresh_token, expires_in) ==
    [c EXCEPT !.stored = [access_token |-> access_token,
                          refresh_token |-> IF refresh_token # 0 THEN refresh_token
                                            ELSE @.refresh_token,
                          expires_in |-> expires_in]]

DefaultExpiry(p) == IF p = "dropbox" THEN 14400 ELSE 3600

\* refresh_access_token: False without a request when the refresh token or the
\* client credentials are missing, False on a status other than 200 or an
\* exception, else the new tokens are kept and stored
RefreshAccessToken(c, g) ==
    LET c1 == [c EXCEPT !.refreshes = @ + 1]
    IN  IF c.refresh_token = 0 \/ ~c.client_id \/ ~g.granted
        THEN [ok |-> FALSE, c |-> c1]
        ELSE LET at == c.access_token + 1
                 rt == IF g.rotated THEN c.refresh_token + 1 ELSE c.refresh_token
                 e  == IF g.expires_in = 0 THEN DefaultExpiry(c.provider) ELSE g.expires_in
             IN  [ok |-> TRUE,
                  c  |-> [UpdateDbTokens(c1, at, rt, e) EXCEPT !.access_token = at,
                                                               !.refresh_token = rt]]

\* the operations that go through CloudStorageProvider.make_request
UsesMakeRequest(c) ==
    /\ c.provider \in {"google_drive", "onedrive"}
    /\ c.op \in {"list_files", "get_storage_quota", "delete_file"}

\* the operations that refresh the token before their request
RefreshesFirst(c) ==
    /\ c.provider \in {"onedrive", "dropbox"}
    /\ c.op \in {"delete_file", "upload_file"}
    /\ c.refresh_token # 0
    /\ c.client_id

Done(c, result, error) == [c EXCEPT !.pc = "done", !.result = result, !.error = error]

\* what the operation makes of the last response
OnResponse(c, status) ==
    CASE c.op = "list_files" ->
            Done(c, IF c.provider = "dropbox" \/ status = 200 THEN "files" ELSE "empty", c.error)
      [] c.op = "get_storage_quota" ->
            Done(c, IF c.provider = "dropbox" \/ status = 200 THEN "quota" ELSE "zeros", c.error)
      [] c.op = "delete_file" ->
            Done(c, IF c.provider = "dropbox" \/ status = 204 THEN "True" ELSE "False", c.error)
      [] OTHER ->
            IF c.provider = "dropbox" \/ status = 200
            THEN Done(c, "uploaded", c.error)
            ELSE Done(c, "raised", "Upload failed with status")

\* what the operation makes of an exception of its request
OnException(c, error) ==
    CASE c.op = "list_files"        -> Done(c, "empty", error)
      [] c.op = "get_storage_quota" -> Done(c, "zeros", error)
      [] OTHER                      -> Done(c, "raised", error)

\* make_request, the first response is 401, without the test of the refresh token
MakeRequestUnauthorizedRefreshing(c) ==
    [c EXCEPT !.pc = "refresh"]

\* make_request, the first response is 401
MakeRequestUnauthorized(c) ==
    IF c.refresh_token # 0
    THEN [c EXCEPT !.pc = "refresh"]
    ELSE OnException(c, "Access token unauthorized and no refresh token available.")

\* make_request, the response to the retry, returned whatever its status
MakeRequestRetryReturning(c, status) ==
    OnResponse(c, status)

\* make_request, the response to the retry
MakeRequestRetry(c, status) ==
    IF status = 401
    THEN OnException(c, "Refreshed token is still unauthorized.")
    ELSE OnResponse(c, status)

\* the first response of the operation
AfterSend(c0, status) ==
    LET c == [c0 EXCEPT !.sends = @ + 1, !.responses = Append(@, status),
                        !.entered = c0.refreshes]
    IN  IF UsesMakeRequest(c)
        THEN IF status = 401 THEN MakeRequestUnauthorized(c) ELSE OnResponse(c, status)
        ELSE IF c.provider = "google_drive"
        THEN IF status = 401 /\ c.refresh_token # 0
             THEN [c EXCEPT !.pc = "refresh"]
             ELSE OnResponse(c, status)
        ELSE IF c.provider = "onedrive"
        THEN OnResponse(c, status)
        ELSE IF status = 401 /\ c.op \in {"delete_file", "upload_file"}
        THEN IF c.refresh_token # 0 /\ c.client_id
             THEN [c EXCEPT !.pc = "refresh"]
             ELSE OnException(c, "Dropbox authentication failed. Please reconnect your account.")
        ELSE IF status \in {401, 500}
        THEN OnException(c, "Dropbox error")
        ELSE OnResponse(c, status)

\* the refresh that follows a 401
AfterRefresh(c0, g) ==
    LET r == RefreshAccessToken(c0, g)
        c == r.c
    IN  IF UsesMakeRequest(c)
        THEN IF r.ok
             THEN [UpdateDbTokens(c, c.access_token, c.refresh_token, 3600) EXCEPT !.pc = "retry"]
             ELSE OnException(c, "Failed to refresh access token.")
        ELSE IF c.provider = "google_drive"
        THEN IF r.ok THEN [c EXCEPT !.pc = "retry"] ELSE OnResponse(c, 401)
        ELSE [c EXCEPT !.pc = "retry"]

\* the response to the retry
AfterRetry(c0, status) ==
    LET c == [c0 EXCEPT !.sends = @ + 1, !.responses = Append(@, status)]
    IN  IF UsesMakeRequest(c)
        THEN MakeRequestRetry(c, status)
        ELSE IF c.provider = "google_drive"
        THEN OnResponse(c, status)
        ELSE IF status \in {401, 500}
        THEN OnException(c, "Failed even after token refresh")
        ELSE OnResponse(c, status)

\* the tokens the provider can still issue
CanGrant(c, g) ==
    g.granted => (c.access_token < MaxToken /\ (g.rotated => c.refresh_token < MaxToken))

\* an operation of the provider instance is called
CallOperation(op) ==
    /\ call.pc \in {"idle", "done"}
    /\ LET c == [call EXCEPT !.op = op, !.refreshes = 0, !.entered = 0, !.sends = 0,
                            !.responses = <<>>, !.error = "None", !.result = "None",
                            !.stored_before = call.stored]
       IN  call' = IF op \in {"delete_file", "upload_file"} /\ c.mode = "metadata"
                   THEN Done(c, "raised", "not allowed in metadata mode")
                   ELSE IF RefreshesFirst(c)
                   THEN [c EXCEPT !.pc = "pre_refresh"]
                   ELSE [c EXCEPT !.pc = "send"]
    /\ UNCHANGED <<inflight, accounts, files, tasks, now, dup_result, users, sync_logs, app_run>>

\* "Refresh token first": the result of the refresh is ignored
RefreshFirst(g) ==
    /\ call.pc = "pre_refresh"
    /\ CanGrant(call, g)
    /\ call' = [RefreshAccessToken(call, g).c EXCEPT !.pc = "send"]
    /\ UNCHANGED <<inflight, accounts, files, tasks, now, dup_result, users, sync_logs, app_run>>

SendRequest(status) ==
    /\ call.pc = "send"
    /\ call' = AfterSend(call, status)
    /\ UNCHANGED <<inflight, accounts, files, tasks, now, dup_result, users, sync_logs, app_run>>

RefreshToken(g) ==
    /\ call.pc = "refresh"
    /\ CanGrant(call, g)
    /\ call' = AfterRefresh(call, g)
    /\ UNCHANGED <<inflight, accounts, files, tasks, now, dup_result, users, sync_logs, app_run>>

RetryRequest(status) ==
    /\ call.pc = "retry"
    /\ call' = AfterRetry(call, status)
    /\ UNCHANGED <<inflight, accounts, files, tasks, now, dup_result, users, sync_logs, app_run>>

\* ------------------------------------------- hashing and token encryption

\* settings.ENCRYPTION_KEY
EncryptionKey == "key"

\* _compute_size_hash is called on the probe's arguments, once with each name
ApplyComputeSizeHash ==
    /\ "_compute_size_hash" \notin probe.applied
    /\ probe' = [probe EXCEPT
          !.applied = @ \cup {"_compute_size_hash"},
          !.computed = ComputeSizeHash(probe.name, probe.size, probe.mime_type),
          !.computed_other = ComputeSizeHash(probe.other_name, probe.size, probe.mime_type)]
    /\ UNCHANGED <<accounts, files, tasks, now, dup_result, users, call, sync_logs,
                   app_run, callbacks, limiter>>

\* generate_size_hash is called on rows with the probe's arguments
ApplyGenerateSizeHash ==
    /\ "generate_size_hash" \notin probe.applied
    /\ probe' = [probe EXCEPT
          !.applied = @ \cup {"generate_size_hash"},
          !.generated = GenerateSizeHash(probe.name, probe.size, probe.mime_type),
          !.generated_other = GenerateSizeHash(probe.other_name, probe.size, probe.mime_type)]
    /\ UNCHANGED <<accounts, files, tasks, now, dup_result, users, call, sync_logs,
                   app_run, callbacks, limiter>>

\* Fernet.encrypt: the token it returns holds the initialization vector and
\* the data under the key
FernetEncrypt(key, iv, data) == <<"fernet", key, iv, data>>

\* an encrypt_token that returns the Fernet token as it is
EncryptTokenUnencoded(token, iv) ==
    IF token = "" THEN <<>>
    ELSE FernetEncrypt(EncryptionKey, iv, <<"utf-8", token>>)

\* SecurityUtils.encrypt_token, utils.py 128-139: "" (here <<>>) for a falsy
\* token, else the urlsafe base64 text of the Fernet token of token.encode()
EncryptToken(token, iv) ==
    IF token = "" THEN <<>>
    ELSE <<"base64", FernetEncrypt(EncryptionKey, iv, <<"utf-8", token>>)>>

\* SecurityUtils.decrypt_token, utils.py 141-153: None for a falsy argument
\* and for whatever makes b64decode, Fernet.decrypt (anything that is not a
\* token of its key) or decode() raise
DecryptToken(encrypted_token) ==
    IF encrypted_token = <<>> THEN "None"
    ELSE IF /\ encrypted_token[1] = "base64"
            /\ encrypted_token[2][1] = "fernet"
            /\ encrypted_token[2][2] = EncryptionKey
    THEN encrypted_token[2][4][2]
    ELSE "None"

ApplyEncryptToken(iv) ==
    /\ "encrypt_token" \notin probe.applied
    /\ probe' = [probe EXCEPT !.applied = @ \cup {"encrypt_token"},
                              !.encrypted = EncryptToken(probe.token, iv)]
    /\ UNCHANGED <<accounts, files, tasks, now, dup_result, users, call, sync_logs,
                   app_run, callbacks, limiter>>

ApplyDecryptToken ==
    /\ "encrypt_token" \in probe.applied
    /\ "decrypt_token" \notin probe.applied
    /\ probe' = [probe EXCEPT !.applied = @ \cup {"decrypt_token"},
                              !.decrypted = DecryptToken(probe.encrypted)]
    /\ UNCHANGED <<accounts, files, tasks, now, dup_result, users, call, sync_logs,
                   app_run, callbacks, limiter>>

\* ------------------------------------------------------------ RateLimiter

\* The limiter of the model lets MaxRequests requests through per Window ticks
\* of time.time(); base.py 11 and 19 have 60 requests and 60 seconds.
MaxRequests == 2

Window == 3

\* the clock of the limiter stops here, and so many requests are sent at most
MaxTime == 8

MaxSent == 5

\* RateLimiter.wait_if_needed at time l.time, base.py 15-26: the requests of
\* the last Window are kept; with MaxRequests of them the thread sleeps until
\* the oldest is Window old; the time read before the sleep is appended
WaitIfNeeded(l) ==
    LET t     == l.time
        kept  == SelectSeq(l.requests, LAMBDA req_time : t - req_time < Window)
        sleep_time == IF Len(kept) >= MaxRequests THEN Window - (t - kept[1]) ELSE 0
    IN  [l EXCEPT !.requests = Append(kept, t),
                  !.time = IF sleep_time > 0 THEN t + sleep_time ELSE t]

\* make_request up to its client.request, base.py 118-134: the request is
\* sent when wait_if_needed returns
MakeRequest ==
    /\ Len(limiter.sent) < MaxSent
    /\ WaitIfNeeded(limiter).time <= MaxTime
    /\ limiter' = [WaitIfNeeded(limiter) EXCEPT !.sent = Append(@, WaitIfNeeded(limiter).time)]
    /\ UNCHANGED <<accounts, files, tasks, now, dup_result, users, call, sync_logs,
                   app_run, callbacks, probe>>

\* a second of time.time() passes
TimePasses ==
    /\ limiter.time < MaxTime
    /\ limiter' = [limiter EXCEPT !.time = @ + 1]
    /\ UNCHANGED <<accounts, files, tasks, now, dup_result, users, call, sync_logs,
                   app_run, callbacks, probe>>

\* the next handler or sync run of the account builds its provider instance,
\* main.py 934-942, 1313-1321, 1491-1499: CloudStorageProvider.__init__ gives
\* it a RateLimiter of its own
NewProviderInstance ==
    /\ limiter.requests # <<>>
    /\ limiter' = [limiter EXCEPT !.requests = <<>>]
    /\ UNCHANGED <<accounts, files, tasks, now, dup_result, users, call, sync_logs,
                   app_run, callbacks, probe>>

\* ------------------------------------------ app.py: sync_storage_account

\* the pages one sync request fetches at most
MaxPages == 2

\* the sync requests made at most
MaxLogs == 2

\* create_file_metadata, app.py 455-473, and the column defaults of the INSERT;
\* no size_hash is set
AppCreateFileMetadata(user_id, account_id, d, t) ==
    [id |-> 0, user_id |-> user_id, storage_account_id |-> account_id,
     provider_file_id |-> d.provider_file_id, name |-> d.name,
     size |-> d.size, mime_type |-> d.mime_type, is_folder |-> FALSE,
     modified_at_source |-> d.modified_at, content_hash |-> d.content_hash,
     size_hash |-> <<>>,
     web_view_link |-> d.web_view_link, preview_link |-> d.preview_link,
     is_active |-> TRUE, updated_at |-> t]

\* update_file_metadata, app.py 475-491
AppUpdateFileMetadata(e, d, t) ==
    [e EXCEPT !.name = d.name, !.size = d.size, !.mime_type = d.mime_type,
              !.modified_at_source = d.modified_at,
              !.preview_link = d.preview_link,
              !.web_view_link = d.web_view_link,
              !.content_hash = d.content_hash,
              !.updated_at = t,
              !.size_hash = IF d.name # "None" /\ d.name # "" /\ d.size # NoSize /\ d.size # 0
                            THEN GenerateSizeHash(d.name, d.size, d.mime_type)
                            ELSE @]

\* one turn of the loop over the files of a page, app.py 275-290: the query
\* flushes the rows added before it
AppUpsertOne(st, d, account_id, user_id, t) ==
    LET existing == {r \in st.rows : /\ r.user_id = user_id
                                     /\ r.storage_account_id = account_id
                                     /\ r.provider_file_id = d.provider_file_id}
    IN  IF existing # {}
        THEN LET e == CHOOSE x \in existing : \A y \in existing : x.id <= y.id
             IN  [st EXCEPT !.rows = (@ \ {e}) \cup {DbStore(AppUpdateFileMetadata(e, d, t))},
                            !.files_updated = @ + 1]
        ELSE [st EXCEPT !.rows = @ \cup WithIds(<<DbStore(AppCreateFileMetadata(user_id, account_id, d, t))>>,
                                                SetMax({r.id : r \in st.rows})),
                        !.files_added = @ + 1]

RECURSIVE AppUpsertLoop(_, _, _, _, _, _)
AppUpsertLoop(st, page, i, account_id, user_id, t) ==
    IF i > Len(page) THEN st
    ELSE AppUpsertLoop(AppUpsertOne(st, page[i], account_id, user_id, t),
                       page, i + 1, account_id, user_id, t)

\* a page whose commit also retires the rows of the account that are not on it
AppSyncPageRetiring(st, page, account_id, user_id, t) ==
    LET st1 == AppUpsertLoop(st, page, 1, account_id, user_id, t)
        ids == {page[i].provider_file_id : i \in 1..Len(page)}
    IN  [st1 EXCEPT !.rows = {IF r.storage_account_id = account_id /\ r.provider_file_id \notin ids
                              THEN [r EXCEPT !.is_active = FALSE]
                              ELSE r : r \in st1.rows}]

\* the rows and the counts after a page is processed and committed, app.py 275-293
AppSyncPage(st, page, account_id, user_id, t) ==
    AppUpsertLoop(st, page, 1, account_id, user_id, t)

SyncLogRow(id) == CHOOSE l \in sync_logs : l.id = id

\* POST /api/storage-accounts/<id>/sync up to its first list_files: 404 for an
\* account that is not the user's; the provider is constructed, then the SyncLog
\* is added with the defaults of its columns (status 'running') and committed.
\* When get_storage_provider raises, the except clause reads sync_log before
\* its assignment and the request ends with that error, no SyncLog written.
AppSyncStart(user_id, account_id, constructed) ==
    /\ app_run.pc \in {"idle", "completed", "failed", "crashed"}
    /\ user_id \in users
    /\ HasAccount(account_id, user_id)
    /\ Cardinality(sync_logs) < MaxLogs
    /\ IF constructed
       THEN LET id == SetMax({l.id : l \in sync_logs}) + 1
            IN  /\ sync_logs' = sync_logs \cup
                      {[id |-> id, user_id |-> user_id, storage_account_id |-> account_id,
                        status |-> "running", files_processed |-> 0, files_added |-> 0,
                        files_updated |-> 0, error_details |-> "None"]}
                /\ app_run' = [NoRun EXCEPT !.pc = "fetch", !.account_id = account_id,
                                            !.user_id = user_id, !.log_id = id,
                                            !.before = {r.id : r \in {x \in files :
                                                           /\ x.storage_account_id = account_id
                                                           /\ x.is_active}}]
       ELSE /\ app_run' = [NoRun EXCEPT !.pc = "crashed", !.account_id = account_id,
                                        !.user_id = user_id]
            /\ UNCHANGED sync_logs
    /\ UNCHANGED <<inflight, accounts, files, tasks, now, dup_result, users, call>>

\* one turn of the while loop, app.py 266-296, and what follows the loop or the
\* exception, app.py 298-322: list_files returns a page and whether a
\* next_page_token came with it, or throws
AppSyncFetch(ok, page, more) ==
    /\ app_run.pc = "fetch"
    /\ (ok /\ more) => app_run.pages + 1 < MaxPages
    /\ (~ok) => (page = <<>> /\ ~more)
    /\ LET log == SyncLogRow(app_run.log_id)
           st  == AppSyncPage([rows |-> files, files_added |-> app_run.files_added,
                               files_updated |-> app_run.files_updated],
                              page, app_run.account_id, app_run.user_id, now)
           processed == [log EXCEPT !.files_processed = @ + Len(page)]
       IN  IF ~ok
           THEN /\ sync_logs' = (sync_logs \ {log}) \cup
                        {[log EXCEPT !.status = "failed", !.error_details = "error"]}
                /\ app_run' = [app_run EXCEPT !.pc = "failed"]
                /\ UNCHANGED files
           ELSE /\ files' = st.rows
                /\ sync_logs' = (sync_logs \ {log}) \cup
                        {IF more THEN processed
                         ELSE [processed EXCEPT !.status = "completed",
                                                !.files_added = st.files_added,
                                                !.files_updated = st.files_updated]}
                /\ app_run' = [app_run EXCEPT
                        !.pc = IF more THEN "fetch" ELSE "completed",
                        !.pages = @ + 1,
                        !.files_added = st.files_added,
                        !.files_updated = st.files_updated,
                        !.committed = @ \cup {page[i].provider_file_id : i \in 1..Len(page)}]
    /\ UNCHANGED <<inflight, accounts, tasks, now, dup_result, users, call>>

\* ------------------------------------------------------- the specifications

Modes == {"full_access", "metadata"}

\* Spec: one user with a full_access account, two background tasks, every
\* handler that writes file_metadata
SyncUsers == {1}

SyncModes == {"full_access"}

Init == InitWith(SyncUsers)

Next ==
    \/ \E t \in TaskIds, u \in SyncUsers, m \in SyncModes : AuthCallback(t, u, m)
    \/ \E t \in TaskIds, a \in AccountIds, u \in SyncUsers : SyncAccount(t, a, u)
    \/ \E t \in TaskIds : SyncStart(t)
    \/ \E t \in TaskIds : SyncList(t, SyncDescriptors, SUBSET FileIds)
    \/ \E t \in TaskIds, q \in {"ok", "zeros", "raises"} : SyncQuota(t, q, 300)
    \/ \E u \in SyncUsers, a \in accounts, up \in BOOLEAN, d \in SyncDescriptors :
            UploadFile(u, a, up, d)
    \/ \E u \in SyncUsers, r \in files, raises \in BOOLEAN : DeleteFile(u, r.id, raises)
    \/ \E u \in SyncUsers, S \in SUBSET {r.id : r \in files} : \E R \in SUBSET S :
            Cardinality(S) <= MaxRemove /\ RemoveDuplicateFiles(u, S, R)
    \/ \E u \in SyncUsers, a \in AccountIds : DeleteStorageAccount(u, a)
    \/ \E u \in SyncUsers : DeleteUserAccount(u)

Spec == Init /\ [][Next]_vars

\* SpecDup: a user who connects an account of each mode, one background task
\* at a time (a callback for a connected account starts its next sync), and
\* the duplicate scan
DupUsers == {1}

\* the accounts that are connected: one of each mode, both of user 1
DupLogins == {<<1, "full_access">>, <<1, "metadata">>}

DupTaskIds == {1}

InitDup == InitWith(DupUsers)

NextDup ==
    \/ \E t \in DupTaskIds, l \in DupLogins : AuthCallback(t, l[1], l[2])
    \/ \E t \in DupTaskIds : SyncStart(t)
    \/ \E t \in DupTaskIds : SyncList(t, DupDescriptors, {{}})
    \/ \E t \in DupTaskIds : SyncQuota(t, "zeros", 0)
    \/ \E u \in DupUsers, m \in Modes \cup {"None"} : GetDuplicates(u, m)

SpecDup == InitDup /\ [][NextDup]_vars

\* SpecCall: one provider instance of any of the three providers, with or
\* without a refresh token and client credentials, executing operations one
\* after the other against a provider that answers anything.
InitCall ==
    /\ users = {1}
    /\ accounts = {}
    /\ files = {}
    /\ tasks = [t \in TaskIds |-> IdleTask]
    /\ now = 0
    /\ dup_result = NoScan
    /\ sync_logs = {}
    /\ app_run = NoRun
    /\ callbacks = <<>>
    /\ limiter = NoLimiter
    /\ probe = NoProbe
    /\ call \in {ProviderInstance(p, rt, cid, m) :
                    p \in Providers, rt \in {0, 1}, cid \in BOOLEAN, m \in Modes}

NextCall ==
    \/ \E op \in Operations : CallOperation(op)
    \/ \E g \in Grants : RefreshFirst(g)
    \/ \E status \in Statuses : SendRequest(status)
    \/ \E g \in Grants : RefreshToken(g)
    \/ \E status \in Statuses : RetryRequest(status)

SpecCall == InitCall /\ [][NextCall]_vars

\* SpecApp: the sync requests of app.py for the account of one user, every
\* listing of at most MaxPages pages, any fetch of which can throw.
InitApp ==
    /\ users = {1}
    /\ accounts = {[id |-> 1, user_id |-> 1, provider |-> "google_drive",
                    account_email |-> "e1", mode |-> "full_access",
                    is_active |-> TRUE, storage_used |-> 0]}
    /\ files = {}
    /\ tasks = [t \in TaskIds |-> IdleTask]
    /\ now = 0
    /\ dup_result = NoScan
    /\ call = NoCall
    /\ sync_logs = {}
    /\ app_run = NoRun
    /\ callbacks = <<>>
    /\ limiter = NoLimiter
    /\ probe = NoProbe

NextApp ==
    \/ \E u \in users, a \in AccountIds, constructed \in BOOLEAN : AppSyncStart(u, a, constructed)
    \/ \E ok \in BOOLEAN, page \in SeqsUpTo(SyncDescriptors, MaxListLen), more \in BOOLEAN :
            AppSyncFetch(ok, page, more)

SpecApp == InitApp /\ [][NextApp]_vars

\* SpecMalformed: the syncs of one account whose listings can hold a descriptor
\* without provider_file_id.
MalformedDescriptors ==
    SyncDescriptors \cup
        {Descriptor("None", "x.png", 100, "image/png", "t1", <<>>, "None")}

InitMalformed == InitWith(SyncUsers)

NextMalformed ==
    \/ \E t \in TaskIds, u \in SyncUsers, m \in SyncModes : AuthCallback(t, u, m)
    \/ \E t \in TaskIds, a \in AccountIds, u \in SyncUsers : SyncAccount(t, a, u)
    \/ \E t \in TaskIds : SyncStart(t)
    \/ \E t \in TaskIds : SyncList(t, MalformedDescriptors, {{}})
    \/ \E t \in TaskIds : SyncQuota(t, "ok", 300)

SpecMalformed == InitMalformed /\ [][NextMalformed]_vars

\* SpecMode: one user with an account of each mode, one background task, and
\* the delete, removal and upload requests.
ModeDescriptors ==
    {Descriptor(p, "x.png", 100, "image/png", "t1", <<>>, "None") : p \in FileIds}

InitMode == InitWith(DupUsers)

NextMode ==
    \/ \E t \in DupTaskIds, l \in DupLogins : AuthCallback(t, l[1], l[2])
    \/ \E t \in DupTaskIds : SyncStart(t)
    \/ \E t \in DupTaskIds : SyncList(t, ModeDescriptors, {{}})
    \/ \E t \in DupTaskIds : SyncQuota(t, "zeros", 0)
    \/ \E u \in DupUsers, a \in accounts, up \in BOOLEAN, d \in ModeDescriptors : UploadFile(u, a, up, d)
    \/ \E u \in DupUsers, r \in files, raises \in BOOLEAN : DeleteFile(u, r.id, raises)
    \/ \E u \in DupUsers, S \in SUBSET {r.id : r \in files} : \E R \in SUBSET S :
            Cardinality(S) <= MaxRemove /\ RemoveDuplicateFiles(u, S, R)

SpecMode == InitMode /\ [][NextMode]_vars

\* SpecRemove: the duplicate scans of one user and the removal requests that
\* follow them.
InitRemove == InitWith(DupUsers)

NextRemove ==
    \/ \E t \in DupTaskIds, l \in DupLogins : AuthCallback(t, l[1], l[2])
    \/ \E t \in DupTaskIds : SyncStart(t)
    \/ \E t \in DupTaskIds : SyncList(t, ModeDescriptors, {{}})
    \/ \E t \in DupTaskIds : SyncQuota(t, "zeros", 0)
    \/ \E u \in DupUsers, m \in Modes \cup {"None"} : GetDuplicates(u, m)
    \/ \E u \in DupUsers, S \in SUBSET {r.id : r \in files} : \E R \in SUBSET S :
            Cardinality(S) <= MaxRemove /\ RemoveDuplicateFiles(u, S, R)

SpecRemove == InitRemove /\ [][NextRemove]_vars

\* SpecAuth: the OAuth callbacks of one user for two providers in both modes,
\* any number of them waiting for the provider at a time, the syncs they
\* schedule and the deletion of accounts.
NextAuth ==
    \/ \E u \in DupUsers, p \in {"google_drive", "onedrive"}, m \in Modes :
            AuthCallbackReceived(u, p, "e1", m)
    \/ \E t \in DupTaskIds, i \in 1..MaxCallbacks : AuthCallbackReturned(t, i)
    \/ \E t \in DupTaskIds : SyncStart(t)
    \/ \E t \in DupTaskIds :
            SyncList(t, {Descriptor("a", "x.png", 100, "image/png", "t1", <<>>, "None")}, {{}})
    \/ \E t \in DupTaskIds : SyncQuota(t, "zeros", 0)
    \/ \E u \in DupUsers, a \in AccountIds : DeleteStorageAccount(u, a)

SpecAuth == InitDup /\ [][NextAuth]_vars

\* SpecUpload: the uploads and the syncs of one full_access account whose
\* files can be empty (size 0).
UploadDescriptors ==
    {Descriptor(p, "x.png", sz, "image/png", "t1", <<>>, "None") :
        p \in FileIds, sz \in {0, 100}}

NextUpload ==
    \/ \E t \in DupTaskIds, u \in SyncUsers, m \in SyncModes : AuthCallback(t, u, m)
    \/ \E t \in DupTaskIds : SyncStart(t)
    \/ \E t \in DupTaskIds : SyncList(t, UploadDescriptors, {{}})
    \/ \E t \in DupTaskIds : SyncQuota(t, "ok", 300)
    \/ \E u \in SyncUsers, a \in accounts, up \in BOOLEAN, d \in UploadDescriptors :
            UploadFile(u, a, up, d)

SpecUpload == Init /\ [][NextUpload]_vars

\* SpecPure: the two size hashes and the token encryption applied to every
\* choice of arguments: "None" and NoSize are None, "" is the empty string,
\* and Fernet draws one of two initialization vectors.
InitPure ==
    /\ users = DupUsers
    /\ accounts = {}
    /\ files = {}
    /\ tasks = [t \in TaskIds |-> IdleTask]
    /\ now = 0
    /\ dup_result = NoScan
    /\ call = NoCall
    /\ sync_logs = {}
    /\ app_run = NoRun
    /\ callbacks = <<>>
    /\ limiter = NoLimiter
    /\ probe \in {[NoProbe EXCEPT !.name = n, !.other_name = o, !.size = sz,
                                  !.mime_type = m, !.token = tk] :
                    n \in {"x.png", "X.PNG", "y.txt", "", "None"},
                    o \in {"x.png", "X.PNG", "y.txt", "", "None"},
                    sz \in {NoSize, 0, 100},
                    m \in {"None", "image/png"},
                    tk \in {"", "ya29.a0", "1//0g"}}

NextPure ==
    \/ ApplyComputeSizeHash
    \/ ApplyGenerateSizeHash
    \/ \E iv \in {1, 2} : ApplyEncryptToken(iv)
    \/ ApplyDecryptToken

SpecPure == InitPure /\ [][NextPure]_vars

\* SpecLimit: the requests one provider-account pair sends through
\* make_request, from one provider instance after the other, as time passes.
NextLimit ==
    \/ MakeRequest
    \/ TimePasses
    \/ NewProviderInstance

SpecLimit == InitDup /\ [][NextLimit]_vars

\* ------------------------------------------------- the reconciliation claims

ListedIds(page) == {page[i].provider_file_id : i \in DOMAIN page}

\* no provider_file_id twice among the account's rows, none twice on the page
UniqueKeys(table, account_id) ==
    \A r1, r2 \in table :
        (r1.storage_account_id = account_id /\ r2.storage_account_id = account_id
            /\ r1.provider_file_id = r2.provider_file_id) => r1.id = r2.id

DistinctIds(page) ==
    \A i, j \in DOMAIN page : page[i].provider_file_id = page[j].provider_file_id => i = j

Pages == SeqsUpTo(SyncDescriptors, MaxListLen)

\* the step of task t is a run that listed `page` (with the ids `more` on
\* later pages) successfully and committed
Committed(t, page, more, em0) ==
    /\ SyncListStep(t, TRUE, page, more, em0)
    /\ tasks'[t].pc = "quota"

\* C1: a run whose listing call fails sets no record of the account that was
\* active before the run to inactive
C1_FailedListingDeactivatesNothing ==
    [][\A t \in TaskIds : tasks[t].pc = "listing" =>
         \A em0 \in ExistingMetadataChoices(files, tasks[t].account_id) :
            SyncListStep(t, FALSE, <<>>, {}, em0) =>
                \A r \in files :
                    (r.storage_account_id = tasks[t].account_id /\ r.is_active)
                        => \E r2 \in files' : r2.id = r.id /\ r2.is_active]_vars

\* C2: the records a run deactivates are exactly the records of the account
\* that were active and whose provider_file_id is on no page of the listing
C2_DeactivatedAreExactlyTheVanished ==
    [][\A t \in TaskIds : tasks[t].pc = "listing" =>
         \A page \in Pages, more \in SUBSET FileIds,
            em0 \in ExistingMetadataChoices(files, tasks[t].account_id) :
            (Committed(t, page, more, em0) /\ UniqueKeys(files, tasks[t].account_id)
                /\ DistinctIds(page)) =>
                \A r \in files :
                    (r.storage_account_id = tasks[t].account_id /\ r.is_active) =>
                        ((\E r2 \in files' : r2.id = r.id /\ ~r2.is_active)
                            <=> r.provider_file_id \notin ListedIds(page) \cup more)]_vars

\* C3: a second run over the listing a run has just reconciled writes nothing:
\* it leaves every row of the table as the first run left it
C3_SecondRunWritesNothing ==
    [][\A t \in TaskIds : tasks[t].pc = "listing" =>
         \A page \in Pages, em0 \in ExistingMetadataChoices(files, tasks[t].account_id) :
            (Committed(t, page, {}, em0) /\ UniqueKeys(files', tasks[t].account_id)
                /\ DistinctIds(page)) =>
                \A em1 \in ExistingMetadataChoices(files', tasks[t].account_id) :
                    Reconcile(files', em1, page, tasks[t].account_id,
                              tasks[t].user_id, now' + 1).rows = files']_vars

\* C4: after a run that saw the complete listing, a record of the account is
\* active if and only if its provider_file_id is in the listing
C4_ActiveIffListed ==
    [][\A t \in TaskIds : tasks[t].pc = "listing" =>
         \A page \in Pages, em0 \in ExistingMetadataChoices(files, tasks[t].account_id) :
            (Committed(t, page, {}, em0) /\ UniqueKeys(files', tasks[t].account_id)
                /\ DistinctIds(page)) =>
                \A r \in files' : r.storage_account_id = tasks[t].account_id =>
                    (r.is_active <=> r.provider_file_id \in ListedIds(page))]_vars

\* a step of one of the handlers that delete rows
DeleteStep ==
    \/ \E u \in users, r \in files, raises \in BOOLEAN : DeleteFile(u, r.id, raises)
    \/ \E u \in users, S \in SUBSET {r.id : r \in files} : \E R \in SUBSET S :
            RemoveDuplicateFiles(u, S, R)
    \/ \E u \in users, a \in AccountIds : DeleteStorageAccount(u, a)
    \/ \E u \in users : DeleteUserAccount(u)

\* C5: a row of file_metadata disappears only in a step of delete_file,
\* remove_duplicate_files, delete_storage_account or delete_user_account; no
\* step of sync_account_files loses a row
C5_OnlyDeletionsRemoveRows ==
    [][(\E r \in files : \A r2 \in files' : r2.id # r.id) => DeleteStep]_vars

\* a run has retired a record, and its row is still there
C5_Witness == \E r \in files : ~r.is_active

\* C6: no two rows of file_metadata have the same storage_account_id and
\* provider_file_id
C6_UniqueProviderFileId ==
    \A r1, r2 \in files :
        (r1.storage_account_id = r2.storage_account_id
            /\ r1.provider_file_id = r2.provider_file_id) => r1.id = r2.id

\* C7: no two runs of sync_account_files for one account are in progress
\* together
C7_OneRunPerAccount ==
    \A t1, t2 \in TaskIds :
        (t1 # t2 /\ tasks[t1].pc \in {"listing", "quota"}
                 /\ tasks[t2].pc \in {"listing", "quota"})
            => tasks[t1].account_id # tasks[t2].account_id

\* ------------------------------------------------- the duplicate-scan claims

GroupsOf(result) == {result.groups[i] : i \in DOMAIN result.groups}

RowOf(id) == CHOOSE r \in files : r.id = id

\* C8: a row id is a member of at most one group of a response of
\* get_duplicates, and is not twice in that group
C8_TierExclusivity ==
    /\ \A i, j \in DOMAIN dup_result.groups :
         i # j => RowIds(dup_result.groups[i].files)
                    \cap RowIds(dup_result.groups[j].files) = {}
    /\ \A g \in GroupsOf(dup_result) :
         \A i, j \in DOMAIN g.files : g.files[i] = g.files[j] => i = j

\* a response with a content-hash group and another group, a member of the
\* first having the size hash of a member of the second
C8_Witness ==
    /\ dup_result.served
    /\ \E g1, g2 \in GroupsOf(dup_result) :
         /\ g1 # g2
         /\ \E id1 \in RowIds(g1.files), id2 \in RowIds(g2.files) :
              /\ g1.hash = RowOf(id1).content_hash
              /\ RowOf(id1).size_hash # <<>>
              /\ RowOf(id1).size_hash = RowOf(id2).size_hash

\* C9: every group of a response of get_duplicates has at least two members,
\* and its count is the number of its members
C9_GroupsOfTwoOrMore ==
    \A g \in GroupsOf(dup_result) :
        /\ g.count >= 2
        /\ g.count = Len(g.files)
        /\ g.count = Cardinality(RowIds(g.files))

\* a response, to a scan without a mode filter, in which a size-hash group
\* had two members taken by the content-hash group and its third is in no group
C9_Witness ==
    /\ dup_result.served
    /\ \E g \in GroupsOf(dup_result) :
         /\ \E id1, id2 \in RowIds(g.files) :
              /\ RowOf(id1).storage_account_id # RowOf(id2).storage_account_id
              /\ RowOf(id1).size_hash = RowOf(id2).size_hash
              /\ g.hash = RowOf(id1).content_hash
         /\ \E r \in files :
              /\ r.is_active
              /\ \A g2 \in GroupsOf(dup_result) : r.id \notin RowIds(g2.files)
              /\ \A id \in RowIds(g.files) :
                    r.size_hash = RowOf(id).size_hash /\ r.user_id = RowOf(id).user_id

\* C10: two active rows of the user that pass the mode filter and have the
\* same content hash are members of one group of the response to the scan,
\* and the group's key is that hash
C10_ContentHashCompleteness ==
    dup_result.served =>
        \A r1, r2 \in ScanRows(dup_result.user_id, dup_result.mode) :
            (r1.id # r2.id /\ r1.content_hash # <<>>
                /\ r1.content_hash = r2.content_hash) =>
                \E g \in GroupsOf(dup_result) :
                    /\ g.hash = r1.content_hash
                    /\ {r1.id, r2.id} \subseteq RowIds(g.files)

\* the response to the scan of a catalog of two files with hash h1: one group
\* of two members, keyed h1
C10_Witness ==
    /\ dup_result.served
    /\ Cardinality(files) = 2
    /\ Len(dup_result.groups) = 1
    /\ dup_result.groups[1].hash = <<"h1">>
    /\ dup_result.groups[1].count = 2
    /\ Len(dup_result.groups[1].files) = 2


RequestRefreshes == call.refreshes - call.entered

\* the first response and the response to the retry are both 401
DoubleUnauthorized ==
    /\ Len(call.responses) >= 2
    /\ call.responses[1] = 401
    /\ call.responses[2] = 401

\* C12: a call of make_request whose first response and whose response to
\* the retry are both 401 has ended, with refresh_access_token invoked exactly
\* once, the request sent exactly twice, and the exception "Refreshed token is
\* still unauthorized."
C12_DoubleUnauthorizedIsTerminal ==
    (UsesMakeRequest(call) /\ DoubleUnauthorized) =>
        /\ call.pc = "done"
        /\ RequestRefreshes = 1
        /\ call.sends = 2
        /\ call.error = "Refreshed token is still unauthorized."

\* a double 401 inside make_request, reached from an operation that had
\* refreshed the token before it called make_request
C12_Witness ==
    /\ UsesMakeRequest(call)
    /\ DoubleUnauthorized
    /\ call.entered = 1

\* C13: no operation of a provider invokes refresh_access_token more than once
C13_AtMostOneRefresh ==
    call.refreshes <= 1

\* C14: a call whose first response is 401 while the instance holds no refresh
\* token has ended with no invocation of refresh_access_token, one request
\* sent and the stored credentials as they were; make_request has raised
\* "Access token unauthorized and no refresh token available."
C14_NoRefreshTokenFailsAtOnce ==
    (call.sends >= 1 /\ call.responses[1] = 401 /\ call.refresh_token = 0) =>
        /\ call.pc = "done"
        /\ call.refreshes = 0
        /\ call.sends = 1
        /\ call.stored = call.stored_before
        /\ UsesMakeRequest(call) =>
              call.error = "Access token unauthorized and no refresh token available."

\* make_request has answered a 401 of an instance without refresh token, on an
\* instance that holds the client credentials
C14_Witness ==
    /\ UsesMakeRequest(call)
    /\ call.sends = 1
    /\ call.responses[1] = 401
    /\ call.refresh_token = 0
    /\ call.client_id
    /\ call.pc = "done"

\* ------------------------------------------------------------------- quota

\* the sizes of the active rows of an account that are not folders
ActiveSize(table, account_id) ==
    SumSizes({r \in table : /\ r.storage_account_id = account_id
                            /\ ~r.is_folder
                            /\ r.is_active})

\* C15: a run whose quota call failed, by an exception or by the zeros a
\* provider returns for a call that failed, leaves storage_used at the sum of
\* the sizes of the account's active rows
C15_FailedQuotaFallsBack ==
    [][\A t \in TaskIds, q \in {"zeros", "raises"} :
          SyncQuota(t, q, 300) =>
              \A a \in accounts' :
                  a.id = tasks[t].account_id =>
                      a.storage_used = ActiveSize(files, a.id)]_vars

\* ---------------------------------------------------------------- sync runs

\* C16: every run of sync_account_files that has begun has a SyncLog row of
\* its account with status running
C16_RunHasRunningSyncLog ==
    \A t \in TaskIds :
        tasks[t].pc \in {"listing", "quota"} =>
            \E l \in sync_logs : /\ l.storage_account_id = tasks[t].account_id
                                 /\ l.status = "running"

C18_MalformedDescriptorIsSkipped ==
    [][\A t \in TaskIds : tasks[t].pc = "listing" =>
         \A page \in SeqsUpTo(MalformedDescriptors, MaxListLen) :
            \A em0 \in ExistingMetadataChoices(files, tasks[t].account_id) :
                (/\ SyncListStep(t, TRUE, page, {}, em0)
                 /\ \E i \in DOMAIN page : page[i].provider_file_id = "None")
                    => /\ tasks'[t].pc = "quota"
                       /\ \A i \in DOMAIN page :
                            page[i].provider_file_id # "None" =>
                                \E r \in files' :
                                    /\ r.storage_account_id = tasks[t].account_id
                                    /\ r.provider_file_id = page[i].provider_file_id
                                    /\ r.is_active
                                    /\ r.name = page[i].name
                                    /\ r.size = page[i].size]_vars

\* --------------------------------------------------------- delete and upload

\* the rows of the accounts whose mode is metadata
MetadataRows(table) ==
    {r \in table : \E a \in accounts : a.id = r.storage_account_id /\ a.mode = "metadata"}

\* C19: a delete, removal or upload request leaves the rows of the metadata
\* accounts as they were, and for a metadata account it is refused before a
\* provider instance is built
C19_MetadataModeRefuses ==
    [][call'.op \in {"delete_file", "upload_file"} =>
          /\ MetadataRows(files') = MetadataRows(files)
          /\ call'.mode = "metadata" => (call'.pc = "refused" /\ call'.sends = 0)]_vars

\* a delete request for a row of a metadata account has been refused
C19_Witness ==
    /\ call.op = "delete_file"
    /\ call.mode = "metadata"
    /\ call.pc = "refused"
    /\ MetadataRows(files) # {}

\* C20: a removal request that follows a response of get_duplicates leaves a
\* row of at least one member of every group of the response
C20_RemovalKeepsOneOfEachGroup ==
    [][\A u \in DupUsers, S \in SUBSET {r.id : r \in files} :
          \A R \in SUBSET S :
              RemoveDuplicateFiles(u, S, R) =>
                  \A g \in GroupsOf(dup_result) :
                      \E id \in RowIds(g.files) :
                          \E r \in files' : r.id = id]_vars

\* --------------------------------------------------------- the account claims

\* C21: after any OAuth callbacks, two of them for one (user, provider,
\* account_email, mode) waiting for the provider together included, at most
\* one active account exists per tuple, and a callback whose tuple has an
\* account updates that account: no account is added
C21_OneAccountPerTuple ==
    [][/\ \A a1, a2 \in accounts' :
            (/\ a1.is_active /\ a2.is_active
             /\ a1.user_id = a2.user_id /\ a1.provider = a2.provider
             /\ a1.account_email = a2.account_email /\ a1.mode = a2.mode)
            => a1.id = a2.id
       /\ \A t \in DupTaskIds, i \in DOMAIN callbacks :
            (/\ AuthCallbackReturned(t, i)
             /\ StorageAccountOf(callbacks[i].user_id, callbacks[i].provider,
                                 callbacks[i].account_email, callbacks[i].mode) # {})
            => {a.id : a \in accounts'} = {a.id : a \in accounts}]_vars

\* two callbacks for one tuple waited for the provider together and both
\* ended with the same account, which the second of them found
C21_Witness ==
    \E i, j \in DOMAIN callbacks :
        /\ i # j
        /\ callbacks[i].pc = "done" /\ callbacks[j].pc = "done"
        /\ callbacks[i].overlapped /\ callbacks[j].found
        /\ callbacks[i].user_id = callbacks[j].user_id
        /\ callbacks[i].provider = callbacks[j].provider
        /\ callbacks[i].account_email = callbacks[j].account_email
        /\ callbacks[i].mode = callbacks[j].mode
        /\ callbacks[i].account_id = callbacks[j].account_id
        /\ \E a \in accounts : a.id = callbacks[i].account_id /\ a.is_active

\* ------------------------------------------------------ the rate-limit claim

\* C22: for one provider-account pair at most max_requests_per_minute calls
\* are sent in any sliding window of one minute, over any sequence of
\* operations and sync runs; a call that finds the window full is delayed and
\* then sent
C22_AtMostMaxPerWindow ==
    \A s \in 0..MaxTime :
        Cardinality({i \in DOMAIN limiter.sent :
                        s <= limiter.sent[i] /\ limiter.sent[i] < s + Window}) <= MaxRequests

\* ------------------------------------------- the hash and encryption claims

\* C23: the size hash is a function of (name, size, mime) that gives equal
\* hashes for equal arguments and for two names that differ in letter case
\* only, the size and the mime type being the same
C23_SizeHashIgnoresCase ==
    (probe.name = probe.other_name \/ {probe.name, probe.other_name} = {"x.png", "X.PNG"}) =>
        /\ "_compute_size_hash" \in probe.applied => probe.computed = probe.computed_other
        /\ "generate_size_hash" \in probe.applied => probe.generated = probe.generated_other

\* both functions hashed "x.png" and "X.PNG" of one size and mime type
C23_Witness ==
    /\ {"_compute_size_hash", "generate_size_hash"} \subseteq probe.applied
    /\ probe.name = "x.png" /\ probe.other_name = "X.PNG"
    /\ probe.computed # <<>> /\ probe.computed = probe.computed_other
    /\ probe.generated # <<>> /\ probe.generated = probe.generated_other

\* C24 as stated: for every token string t, decrypt_token(encrypt_token(t))
\* returns t
C24_RoundTripOfEveryString ==
    "decrypt_token" \in probe.applied => probe.decrypted = probe.token

\* C24: for every token string t that is not empty,
\* decrypt_token(encrypt_token(t)) returns t
C24_RoundTripOfNonEmpty ==
    ("decrypt_token" \in probe.applied /\ probe.token # "") =>
        probe.decrypted = probe.token

\* a token that is not empty was encrypted and decrypted
C24_Witness ==
    /\ "decrypt_token" \in probe.applied
    /\ probe.token # ""
    /\ probe.encrypted # <<>>
    /\ probe.decrypted = probe.token

\* C28: for every (name, size, mime), size 0, an absent mime type and an
\* absent name included, generate_size_hash returns what _compute_size_hash
\* returns
C28_SizeHashImplementationsAgree ==
    {"_compute_size_hash", "generate_size_hash"} \subseteq probe.applied =>
        probe.generated = probe.computed

\* ------------------------------------------------- the token-storage claim

\* C25: when a 401 leads to a successful refresh, the access token, the
\* refresh token and the expiry the refresh returned are on the account's row
\* before the request is sent again, and the stored expiry is the one the
\* refresh returned
C25_RefreshedTokensAreStored ==
    [][\A g \in Grants :
          (/\ RefreshToken(g)
           /\ RefreshAccessToken(call, g).ok
           /\ call'.pc = "retry")
          => /\ call'.stored.access_token = call'.access_token
             /\ call'.stored.refresh_token = call'.refresh_token
             /\ call'.stored.expires_in =
                    IF g.expires_in = 0 THEN DefaultExpiry(call.provider)
                    ELSE g.expires_in]_vars

\* ------------------------------------------------------ the size-hash claim

\* C26: after any uploads and sync runs, every row that was in the latest
\* listing of its account and has a name and a size (size 0 included) has
\* size_hash = md5(lowercase(name) + "_" + size + "_" + mime) of its current
\* name, size and mime type, with or without a content hash
C26_ListedRowsHaveSizeHash ==
    [][\A t \in DupTaskIds, page \in SeqsUpTo(UploadDescriptors, MaxListLen) :
          \A em0 \in ExistingMetadataChoices(files, tasks[t].account_id) :
              Committed(t, page, {}, em0) =>
                  \A r \in files' :
                      (/\ r.storage_account_id = tasks[t].account_id
                       /\ r.provider_file_id \in ListedIds(page)
                       /\ r.name # "None" /\ r.size # NoSize)
                      => r.size_hash = <<"md5", Lower(r.name), r.size,
                                         IF r.mime_type = "None" THEN "" ELSE r.mime_type>>]_vars

\* SpecDelete: the deletions a user asks for, each with the answer the
\* provider gives to it.
NextDelete ==
    \/ \E t \in DupTaskIds, l \in DupLogins : AuthCallback(t, l[1], l[2])
    \/ \E t \in DupTaskIds : SyncStart(t)
    \/ \E t \in DupTaskIds : SyncList(t, ModeDescriptors, {{}})
    \/ \E t \in DupTaskIds : SyncQuota(t, "zeros", 0)
    \/ \E u \in DupUsers, r \in files, resp \in DeleteResponses :
            DeleteFileAnswered(u, r.id, resp)
    \/ \E u \in DupUsers, S \in SUBSET {r.id : r \in files} :
            \E resp \in [S -> DeleteResponses] :
                Cardinality(S) <= MaxRemove /\ RemoveDuplicateFilesAnswered(u, S, resp)

SpecDelete == InitRemove /\ [][NextDelete]_vars

\* ------------------------------------------------------ the determinism claim

C29_RowKeptUnlessProviderDeleted ==
    [][\A u \in DupUsers, r \in files :
         /\ \A resp \in DeleteResponses :
               (ProviderDeleteFile(resp) # "True" /\ DeleteFileAnswered(u, r.id, resp))
                   => r \in files'
         /\ \A S \in SUBSET {x.id : x \in files} :
               \A resp \in [S -> DeleteResponses] :
                   (/\ r.id \in S
                    /\ Cardinality(S) <= MaxRemove
                    /\ ProviderDeleteFile(resp[r.id]) # "True"
                    /\ RemoveDuplicateFilesAnswered(u, S, resp))
                       => r \in files']_vars

\* ------------------------------------------------------ the ownership claim

\* C30: in every reachable state every row of the catalog references an
\* account that exists and is owned by the row's user, also when
\* delete_storage_account runs while a sync of the account is between its
\* listing and its commit
C30_EveryRowHasItsAccount ==
    \A r \in files :
        \E a \in accounts : a.id = r.storage_account_id /\ a.user_id = r.user_id

====
